---------------------------- MODULE Spec2Model ----------------------------
(***************************************************************************)
(* Model of the SNOMED CT transformation pipeline (package snomedct):      *)
(*   - snomedct.py            generate_dataset_field / validate_table,     *)
(*                            denormalize_term_tables,                     *)
(*                            denormalize_definition_tables,               *)
(*                            snomed_denormalize_dataset                   *)
(*   - snomedct_datamodel.py  SnomedDataRaw.__attrs_post_init__            *)
(*   - datamodel.py           Config                                       *)
(*   - cli.py                 main (how Config is built)                   *)
(*                                                                         *)
(* Conventions.                                                            *)
(*   - A table (polars DataFrame) is a sequence of rows; a row is a record *)
(*     with the columns of its attrs class.                                *)
(*   - An identifier (Python str of digits) is the sequence of its digits: *)
(*     "10" is <<1, 0>>.  Series.sort() on strings is lexicographic, which *)
(*     StrLess computes digit by digit.                                    *)
(*   - Optional values (int | None, tuple | None) are sequences of length  *)
(*     0 (None) or 1 (the value).                                          *)
(*   - A polars null produced by an outer join is NullStr in a string      *)
(*     column and NullId in an identifier column.                          *)
(*   - Series.unique(maintain_order=False) returns the distinct values in  *)
(*     an unspecified order: it is modelled as a set.                      *)
(***************************************************************************)
EXTENDS Integers, Sequences, FiniteSets, TLC

VARIABLES
    config,     \* Config: limit, validate, safe_validation, extras.id_filter
    files,      \* the input files: table key -> rows as read from the tsv file
    loaded,     \* the tables returned by generate_dataset_field so far (the
                \* keyword arguments of SnomedDataRaw)
    nextTable,  \* index into config.extras.tables of the next table to load
    warnings,   \* rows logged by validate_table, in order
    data,       \* SnomedDataRaw: the sixteen table fields
    ids,        \* SnomedDataRaw.ids
    out,        \* SnomedData built by snomed_denormalize_dataset (None before)
    pc          \* position in the run

vars == <<config, files, loaded, nextTable, warnings, data, ids, out, pc>>

---------------------------------------------------------------------------
(* Bounds of the model *)

\* largest value of --limit that is tried (0..MaxLimit, and None)
MaxLimit == 2

---------------------------------------------------------------------------
(* Values *)

None == <<>>
Some(x) == <<x>>

NullStr == "null"
NullId == <<-1>>

\* identifier strings "1", "10", "2", "3", "4"
S1 == <<1>>
S10 == <<1, 0>>
S2 == <<2>>
S3 == <<3>>
S4 == <<4>>

Range(s) == {s[i] : i \in 1..Len(s)}

RECURSIVE Flatten(_)
Flatten(ss) == IF ss = <<>> THEN <<>> ELSE Head(ss) \o Flatten(Tail(ss))

Min(a, b) == IF a < b THEN a ELSE b
Max(a, b) == IF a > b THEN a ELSE b

\* Python's bool(x) for x: int | None
TruthyInt(x) == x # None /\ x[1] # 0
\* Python's bool(x) for x: tuple | None
TruthyTuple(x) == x # None /\ x[1] # <<>>

\* Python's s[:n]
SliceTo(s, n) ==
    IF n >= 0 THEN SubSeq(s, 1, Min(n, Len(s)))
    ELSE SubSeq(s, 1, Max(Len(s) + n, 0))

\* str.__lt__ : lexicographic order on the characters
RECURSIVE StrLess(_, _)
StrLess(a, b) ==
    IF a = <<>> THEN b # <<>>
    ELSE IF b = <<>> THEN FALSE
    ELSE IF Head(a) # Head(b) THEN Head(a) < Head(b)
    ELSE StrLess(Tail(a), Tail(b))

\* Series.sort() of distinct strings
RECURSIVE SortSeries(_)
SortSeries(S) ==
    IF S = {} THEN <<>>
    ELSE LET m == CHOOSE x \in S : \A y \in S : x = y \/ StrLess(x, y)
         IN  <<m>> \o SortSeries(S \ {m})

---------------------------------------------------------------------------
(* Rows: the attrs classes of snomedct_datamodel.py *)

SnomedTableConcept(id, active) == [id |-> id, active |-> active]

SnomedTableDescription(id, active, conceptId, typeId, term) ==
    [id |-> id, active |-> active, conceptId |-> conceptId,
     languageCode |-> "no", typeId |-> typeId, term |-> term]

SnomedTableLanguage(id, active, refsetId, referencedComponentId, acceptabilityId) ==
    [id |-> id, active |-> active, refsetId |-> refsetId,
     referencedComponentId |-> referencedComponentId,
     acceptabilityId |-> acceptabilityId]

SnomedTableRelationship(id, active, sourceId, destinationId) ==
    [id |-> id, active |-> active, sourceId |-> sourceId,
     destinationId |-> destinationId, relationshipGroup |-> "0",
     typeId |-> "Is a (attribute)", characteristicTypeId |-> "inferred"]

\* config.extras.tables, as the keys generate_dataset_field derives from them
Tables ==
    <<"concept_no", "concept_int",
      "description_no_no", "description_en_no", "description_en_int",
      "definition_no_no", "definition_en_no", "definition_en_int",
      "language_nb_no", "language_nb_gp_no", "language_nn_no",
      "language_nn_gp_no", "language_en_no", "language_en_int",
      "relationship_no", "relationship_int">>

TableNames == Range(Tables)

\* the table family of a key: key.split('_')[0]
Family(key) ==
    CASE key \in {"concept_no", "concept_int"} -> "Concept"
      [] key \in {"description_no_no", "description_en_no", "description_en_int"}
            -> "Description"
      [] key \in {"definition_no_no", "definition_en_no", "definition_en_int"}
            -> "Definition"
      [] key \in {"relationship_no", "relationship_int"} -> "Relationship"
      [] OTHER -> "Language"

EmptyData == [t \in TableNames |-> <<>>]

---------------------------------------------------------------------------
(* SnomedDataRaw.__attrs_post_init__ : reconciliation *)

\* table[column] : a column as a Series
Column(table, column) == [i \in 1..Len(table) |-> table[i][column]]

\* filter_table(table, column, is_in, exclude=...)
filter_table(table, column, is_in, exclude) ==
    SelectSeq(table, LAMBDA r : (r[column] \in Range(is_in)) # exclude)

\* Variant of Dedup that compares with the active NO rows only, as if the
\* active filter had run first
DedupAgainstActive(d) ==
    LET activeIds(t) == Column(SelectSeq(d[t], LAMBDA r : r.active = 1), "id")
    IN  [d EXCEPT
           !["concept_int"] = filter_table(@, "id", activeIds("concept_no"), TRUE),
           !["description_en_int"] =
               filter_table(@, "id", activeIds("description_en_no"), TRUE),
           !["definition_en_int"] =
               filter_table(@, "id", activeIds("definition_en_no"), TRUE),
           !["language_en_int"] =
               filter_table(@, "id", activeIds("language_en_no"), TRUE),
           !["relationship_int"] =
               filter_table(@, "id", activeIds("relationship_no"), TRUE)]

\* Variant of filter_table(..., exclude=True) that drops only the first row
\* that matches
drop_first_match(table, column, is_in) ==
    LET hits == {i \in 1..Len(table) : table[i][column] \in Range(is_in)}
    IN  IF hits = {} THEN table
        ELSE LET k == CHOOSE i \in hits : \A j \in hits : i <= j
             IN  SubSeq(table, 1, k - 1) \o SubSeq(table, k + 1, Len(table))

\* Variant of Dedup that removes one shared row of each INT table per pass
DedupOneRow(d) ==
    [d EXCEPT
       !["concept_int"] =
           drop_first_match(@, "id", Column(d["concept_no"], "id")),
       !["description_en_int"] =
           drop_first_match(@, "id", Column(d["description_en_no"], "id")),
       !["definition_en_int"] =
           drop_first_match(@, "id", Column(d["definition_en_no"], "id")),
       !["language_en_int"] =
           drop_first_match(@, "id", Column(d["language_en_no"], "id")),
       !["relationship_int"] =
           drop_first_match(@, "id", Column(d["relationship_no"], "id"))]

\* Remove rows from INT table if a row with the same ID is in the
\* corresponding NO table
Dedup(d) ==
    [d EXCEPT
       !["concept_int"] =
           filter_table(@, "id", Column(d["concept_no"], "id"), TRUE),
       !["description_en_int"] =
           filter_table(@, "id", Column(d["description_en_no"], "id"), TRUE),
       !["definition_en_int"] =
           filter_table(@, "id", Column(d["definition_en_no"], "id"), TRUE),
       !["language_en_int"] =
           filter_table(@, "id", Column(d["language_en_no"], "id"), TRUE),
       !["relationship_int"] =
           filter_table(@, "id", Column(d["relationship_no"], "id"), TRUE)]

\* field_value.filter(pl.col("active") == 1)
ActiveRows(table) == SelectSeq(table, LAMBDA r : r.active = 1)

\* Variant of ActiveFilter that filters only the tables ids is derived from
ActiveFilterScopeTablesOnly(d) ==
    [t \in TableNames |->
        IF t \in {"concept_no", "concept_int", "description_no_no"}
        THEN ActiveRows(d[t]) ELSE d[t]]

\* Filter for active rows: every field except config and ids
ActiveFilter(d) == [t \in TableNames |-> ActiveRows(d[t])]

\* pl.concat([concept_int["id"], concept_no["id"]]).unique()
ConceptsActive(d) ==
    Range(Column(d["concept_int"], "id") \o Column(d["concept_no"], "id"))

\* description_no_no.filter(active == 1)["conceptId"].unique()
ConceptsWithNoDescription(d) ==
    Range(Column(ActiveRows(d["description_no_no"]), "conceptId"))

\* Variant of ConceptIds without .filter(is_in(concepts_active))
ConceptIdsOfAnyDescription(d) == SortSeries(ConceptsWithNoDescription(d))

\* concepts_with_no_description.filter(is_in(concepts_active)).sort()
ConceptIds(d) ==
    SortSeries({c \in ConceptsWithNoDescription(d) : c \in ConceptsActive(d)})

\* Filter using id_filter
FilterIds(cfg, concept_ids) ==
    IF TruthyTuple(cfg.id_filter)
    THEN SelectSeq(concept_ids, LAMBDA c : c \in Range(cfg.id_filter[1]))
    ELSE concept_ids

\* Filter using limit
LimitIds(cfg, s) ==
    IF TruthyInt(cfg.limit) THEN SliceTo(s, cfg.limit[1]) ELSE s

\* self.ids after lines 158-180
DeriveIds(cfg, d) == LimitIds(cfg, FilterIds(cfg, ConceptIds(d)))

\* Reduce dataset by concept_id
ReduceByConceptId(cfg, d, idSeries) ==
    [d EXCEPT
       !["description_no_no"] =
           IF TruthyInt(cfg.limit) \/ TruthyTuple(cfg.id_filter)
           THEN filter_table(@, "conceptId", idSeries, FALSE)
           ELSE @,
       !["description_en_no"] = filter_table(@, "conceptId", idSeries, FALSE),
       !["description_en_int"] = filter_table(@, "conceptId", idSeries, FALSE),
       !["definition_no_no"] = filter_table(@, "conceptId", idSeries, FALSE),
       !["definition_en_no"] = filter_table(@, "conceptId", idSeries, FALSE),
       !["definition_en_int"] = filter_table(@, "conceptId", idSeries, FALSE)]

\* pl.concat([description["id"], definition["id"]])
no_no_component_ids(d) ==
    Column(d["description_no_no"], "id") \o Column(d["definition_no_no"], "id")

en_no_component_ids(d) ==
    Column(d["description_en_no"], "id") \o Column(d["definition_en_no"], "id")

\* Variant of en_int_component_ids that also takes the NO package's ids
en_all_component_ids(d) ==
    Column(d["description_en_int"], "id") \o Column(d["definition_en_int"], "id")
    \o Column(d["description_en_no"], "id") \o Column(d["definition_en_no"], "id")

en_int_component_ids(d) ==
    Column(d["description_en_int"], "id") \o Column(d["definition_en_int"], "id")

\* Filter language refsets by descriptions and definitions IDs
FilterLanguage(d) ==
    [d EXCEPT
       !["language_nb_no"] =
           filter_table(@, "referencedComponentId", no_no_component_ids(d), FALSE),
       !["language_nb_gp_no"] =
           filter_table(@, "referencedComponentId", no_no_component_ids(d), FALSE),
       !["language_nn_no"] =
           filter_table(@, "referencedComponentId", no_no_component_ids(d), FALSE),
       !["language_nn_gp_no"] =
           filter_table(@, "referencedComponentId", no_no_component_ids(d), FALSE),
       !["language_en_no"] =
           filter_table(@, "referencedComponentId", en_no_component_ids(d), FALSE),
       !["language_en_int"] =
           filter_table(@, "referencedComponentId", en_int_component_ids(d), FALSE)]

\* Variant of RelationshipRows with & in place of |
RelationshipRowsBoth(table, idSeries) ==
    SelectSeq(table, LAMBDA r : r.sourceId \in Range(idSeries)
                                /\ r.destinationId \in Range(idSeries))

\* table.filter(table["sourceId"].is_in(ids) | table["destinationId"].is_in(ids))
RelationshipRows(table, idSeries) ==
    SelectSeq(table, LAMBDA r : r.sourceId \in Range(idSeries)
                                \/ r.destinationId \in Range(idSeries))

FilterRelationship(d, idSeries) ==
    [d EXCEPT
       !["relationship_no"] = RelationshipRows(@, idSeries),
       !["relationship_int"] = RelationshipRows(@, idSeries)]

---------------------------------------------------------------------------
(* snomedct.py : denormalization *)

\* language.join(gp, on="referencedComponentId", how="left")
\*     .drop("active_right")
\*     .rename({"acceptabilityId_right": "acceptabilityId_gp"})
\*     .with_columns(pl.lit(lc).alias("lc"))
\* every row of language is kept; a row without a GP row gets nulls
GpAnnotatedRow(l, idRight, refsetIdRight, acceptabilityIdGp, lc) ==
    [id |-> l.id, active |-> l.active, refsetId |-> l.refsetId,
     referencedComponentId |-> l.referencedComponentId,
     acceptabilityId |-> l.acceptabilityId,
     id_right |-> idRight, refsetId_right |-> refsetIdRight,
     acceptabilityId_gp |-> acceptabilityIdGp, lc |-> lc]

\* Variant of gp_annotated with an inner join: a row of language without a
\* GP row is dropped
gp_annotated_inner(language, gp, lc) ==
    Flatten([i \in 1..Len(language) |->
        LET l == language[i]
            m == SelectSeq(gp, LAMBDA g :
                     g.referencedComponentId = l.referencedComponentId)
        IN  [j \in 1..Len(m) |->
                GpAnnotatedRow(l, m[j].id, m[j].refsetId,
                               m[j].acceptabilityId, lc)]])

gp_annotated(language, gp, lc) ==
    Flatten([i \in 1..Len(language) |->
        LET l == language[i]
            m == SelectSeq(gp, LAMBDA g :
                     g.referencedComponentId = l.referencedComponentId)
        IN  IF m = <<>>
            THEN <<GpAnnotatedRow(l, NullId, NullStr, NullStr, lc)>>
            ELSE [j \in 1..Len(m) |->
                     GpAnnotatedRow(l, m[j].id, m[j].refsetId,
                                    m[j].acceptabilityId, lc)]])

\* descriptions.join(language, left_on="id",
\*                   right_on="referencedComponentId", how="right")
\* every row of language is kept; the description columns of a row without
\* a description are null.  Only the columns read later are kept: those of
\* the description that the select names, and the language row.
RightJoin(descriptions, language) ==
    Flatten([i \in 1..Len(language) |->
        LET r == language[i]
            m == SelectSeq(descriptions, LAMBDA d :
                     d.id = r.referencedComponentId)
        IN  IF m = <<>>
            THEN <<[conceptId |-> NullId, typeId |-> NullStr,
                    term |-> NullStr, right |-> r]>>
            ELSE [j \in 1..Len(m) |->
                     [conceptId |-> m[j].conceptId, typeId |-> m[j].typeId,
                      term |-> m[j].term, right |-> r]]])

\* Variant of IsTerm that lets definitions through
IsAnyType(j) == j.typeId \in {"fsn", "synonym", "definition"}

\* .filter(pl.col("typeId").is_in(["fsn", "synonym"])) : a null is dropped
IsTerm(j) == j.typeId \in {"fsn", "synonym"}

\* .filter(pl.col("typeId") == "definition") : a null is dropped
IsDefinition(j) == j.typeId = "definition"

\* with_columns(pl.lit(lc).alias("lc"))
WithLc(language, lc) ==
    [i \in 1..Len(language) |->
        [id |-> language[i].id, active |-> language[i].active,
         refsetId |-> language[i].refsetId,
         referencedComponentId |-> language[i].referencedComponentId,
         acceptabilityId |-> language[i].acceptabilityId, lc |-> lc]]

terms_no(d) ==
    LET joined_no_language ==
            gp_annotated(d["language_nb_no"], d["language_nb_gp_no"], "nb")
            \o gp_annotated(d["language_nn_no"], d["language_nn_gp_no"], "nn")
        joined == SelectSeq(RightJoin(d["description_no_no"], joined_no_language),
                            IsTerm)
    IN  [i \in 1..Len(joined) |->
            [conceptId |-> joined[i].conceptId,
             termId |-> joined[i].right.referencedComponentId,
             term |-> joined[i].term,
             lc |-> joined[i].right.lc,
             typeId |-> joined[i].typeId,
             acceptabilityId |-> joined[i].right.acceptabilityId,
             acceptabilityId_gp |-> joined[i].right.acceptabilityId_gp]]

terms_en(d) ==
    LET joined_en_descriptions ==
            d["description_en_no"] \o d["description_en_int"]
        joined_en_language == d["language_en_no"] \o d["language_en_int"]
        joined == SelectSeq(RightJoin(joined_en_descriptions, joined_en_language),
                            IsTerm)
    IN  [i \in 1..Len(joined) |->
            [conceptId |-> joined[i].conceptId,
             termId |-> joined[i].right.referencedComponentId,
             term |-> joined[i].term,
             lc |-> joined[i].right.refsetId,
             typeId |-> joined[i].typeId,
             acceptabilityId |-> joined[i].right.acceptabilityId,
             acceptabilityId_gp |-> NullStr]]

denormalize_term_tables(d) == terms_no(d) \o terms_en(d)

definitions_no(d) ==
    LET joined_no_language ==
            WithLc(d["language_nb_no"], "nb")
            \o WithLc(d["language_nb_gp_no"], "nb")
            \o WithLc(d["language_nn_no"], "nn")
            \o WithLc(d["language_nn_gp_no"], "nn")
        joined == SelectSeq(RightJoin(d["definition_no_no"], joined_no_language),
                            IsDefinition)
    IN  [i \in 1..Len(joined) |->
            [conceptId |-> joined[i].conceptId,
             definitionId |-> joined[i].right.referencedComponentId,
             term |-> joined[i].term,
             lc |-> joined[i].right.lc]]

definitions_en(d) ==
    LET joined_en_definitions ==
            d["definition_en_no"] \o d["definition_en_int"]
        joined_en_language == d["language_en_no"] \o d["language_en_int"]
        joined == SelectSeq(RightJoin(joined_en_definitions, joined_en_language),
                            IsDefinition)
    IN  [i \in 1..Len(joined) |->
            [conceptId |-> joined[i].conceptId,
             definitionId |-> joined[i].right.referencedComponentId,
             term |-> joined[i].term,
             lc |-> joined[i].right.refsetId]]

denormalize_definition_tables(d) == definitions_no(d) \o definitions_en(d)

\* SnomedData(ids=..., terms=..., definitions=..., relations=...)
snomed_denormalize_dataset(d, idSeries) ==
    [ids |-> idSeries,
     terms |-> denormalize_term_tables(d),
     definitions |-> denormalize_definition_tables(d),
     relations |-> d["relationship_no"] \o d["relationship_int"]]

---------------------------------------------------------------------------
(* snomedct.py : loading one table (generate_dataset_field) *)

\* snomedct_config.extras["table_replace_values"] : Series.replace chains;
\* a value that matches no rule passes through
ReplaceTypeId(v) ==
    CASE v = "900000000000003001" -> "fsn"
      [] v = "900000000000013009" -> "synonym"
      [] v = "900000000000550004" -> "definition"
      [] OTHER -> v

ReplaceRefsetId(v) ==
    CASE v = "900000000000508004" -> "en-GB"
      [] v = "900000000000509007" -> "en-US"
      [] OTHER -> v

\* (the label for "preferred" is written here in ASCII, with aa for a-ring)
ReplaceAcceptabilityId(v) ==
    CASE v = "900000000000548007" -> "tilraadd"
      [] v = "900000000000549004" -> "akseptabel"
      [] OTHER -> v

ReplaceRelationshipTypeId(v) ==
    IF v = "116680003" THEN "Is a (attribute)" ELSE v

\* table_df.with_columns(replace_values); the rules are looked up under
\* schema.__name__, and SnomedTableDefinition is SnomedTableDescription
replace_values(family, table) ==
    CASE family \in {"Description", "Definition"} ->
            [i \in 1..Len(table) |->
                [table[i] EXCEPT !.typeId = ReplaceTypeId(@)]]
      [] family = "Language" ->
            [i \in 1..Len(table) |->
                [table[i] EXCEPT !.refsetId = ReplaceRefsetId(@),
                                 !.acceptabilityId = ReplaceAcceptabilityId(@)]]
      [] family = "Relationship" ->
            [i \in 1..Len(table) |->
                [table[i] EXCEPT !.typeId = ReplaceRelationshipTypeId(@)]]
      [] OTHER -> table

\* table_type(**row) succeeds: the validators.in_ of the attrs class hold
\* (SnomedTableRelationship declares none)
RowIsValid(family, row) ==
    CASE family = "Concept" -> row.active \in {0, 1}
      [] family \in {"Description", "Definition"} ->
            /\ row.active \in {0, 1}
            /\ row.languageCode \in {"no", "en"}
            /\ row.typeId \in {"synonym", "fsn", "definition"}
      [] family = "Language" ->
            /\ row.active \in {0, 1}
            /\ row.acceptabilityId \in {"tilraadd", "akseptabel"}
      [] OTHER -> TRUE

\* Variant of validate_table that raises whatever config.safe_validation is
validate_table_strict(cfg, family, table) ==
    LET failing == SelectSeq(table, LAMBDA r : ~RowIsValid(family, r))
    IN  [logged |-> SubSeq(failing, 1, Min(1, Len(failing))),
         raised |-> failing # <<>>]

\* validate_table(config, table_type, table): the rows it logs, and whether
\* it raises ValueError.  It raises at the first failing row unless
\* config.safe_validation.
validate_table(cfg, family, table) ==
    LET failing == SelectSeq(table, LAMBDA r : ~RowIsValid(family, r))
    IN  IF cfg.safe_validation
        THEN [logged |-> failing, raised |-> FALSE]
        ELSE [logged |-> SubSeq(failing, 1, Min(1, Len(failing))),
              raised |-> failing # <<>>]

---------------------------------------------------------------------------
(* Actions *)

\* generate_dataset_field(config, table_basename, filenames) for the next
\* table of config.extras.tables; a ValueError ends the run
GenerateDatasetField ==
    /\ pc = "load"
    /\ nextTable <= Len(Tables)
    /\ LET key == Tables[nextTable]
           table_df == replace_values(Family(key), files[key])
           v == validate_table(config, Family(key), table_df)
       IN  IF config.validate /\ v.raised
           THEN /\ pc' = "aborted"
                /\ warnings' = warnings \o v.logged
                /\ UNCHANGED <<loaded, nextTable>>
           ELSE /\ loaded' = [loaded EXCEPT ![key] = table_df]
                /\ nextTable' = nextTable + 1
                /\ warnings' = IF config.validate
                               THEN warnings \o v.logged ELSE warnings
                /\ pc' = pc
    /\ UNCHANGED <<config, files, data, ids, out>>

\* SnomedDataRaw(config=config, **dict(...)) : the fields are set, and
\* __attrs_post_init__ starts
Construct ==
    /\ pc = "load"
    /\ nextTable = Len(Tables) + 1
    /\ data' = loaded
    /\ pc' = "constructed"
    /\ UNCHANGED <<config, files, loaded, nextTable, warnings, ids, out>>

\* lines 141-151
DedupStep ==
    /\ pc = "constructed"
    /\ data' = Dedup(data)
    /\ pc' = "deduped"
    /\ UNCHANGED <<config, files, loaded, nextTable, warnings, ids, out>>

\* lines 153-156
ActiveStep ==
    /\ pc = "deduped"
    /\ data' = ActiveFilter(data)
    /\ pc' = "active"
    /\ UNCHANGED <<config, files, loaded, nextTable, warnings, ids, out>>

\* lines 158-180
IdsStep ==
    /\ pc = "active"
    /\ ids' = DeriveIds(config, data)
    /\ pc' = "ids"
    /\ UNCHANGED <<config, files, loaded, nextTable, warnings, data, out>>

\* lines 182-190
ReduceStep ==
    /\ pc = "ids"
    /\ data' = ReduceByConceptId(config, data, ids)
    /\ pc' = "reduced"
    /\ UNCHANGED <<config, files, loaded, nextTable, warnings, ids, out>>

\* lines 192-205
LanguageStep ==
    /\ pc = "reduced"
    /\ data' = FilterLanguage(data)
    /\ pc' = "language"
    /\ UNCHANGED <<config, files, loaded, nextTable, warnings, ids, out>>

\* lines 207-213; __attrs_post_init__ returns
RelationshipStep ==
    /\ pc = "language"
    /\ data' = FilterRelationship(data, ids)
    /\ pc' = "reconciled"
    /\ UNCHANGED <<config, files, loaded, nextTable, warnings, ids, out>>

\* cli.main: snomed_denormalize_dataset(snomed_dataset_raw)
Denormalize ==
    /\ pc = "reconciled"
    /\ out' = Some(snomed_denormalize_dataset(data, ids))
    /\ pc' = "done"
    /\ UNCHANGED <<config, files, loaded, nextTable, warnings, data, ids>>

Next ==
    \/ DedupStep
    \/ ActiveStep
    \/ IdsStep
    \/ ReduceStep
    \/ LanguageStep
    \/ RelationshipStep
    \/ Denormalize

NextLoad ==
    \/ GenerateDatasetField
    \/ Construct
    \/ Next

---------------------------------------------------------------------------
(* Inputs *)

\* component identifiers: descriptions "101".., definitions "201"..,
\* English descriptions "301".., English definitions "401"..,
\* language refset members "501".., relationships "601"..
D1 == <<1, 0, 1>>
D2 == <<1, 0, 2>>
D3 == <<1, 0, 3>>
D4 == <<1, 0, 4>>
D5 == <<1, 0, 5>>
F1 == <<2, 0, 1>>
F2 == <<2, 0, 2>>
E1 == <<3, 0, 1>>
E2 == <<3, 0, 2>>
E3 == <<3, 0, 3>>
G1 == <<4, 0, 1>>
G2 == <<4, 0, 2>>
L1 == <<5, 0, 1>>
L2 == <<5, 0, 2>>
L3 == <<5, 0, 3>>
L4 == <<5, 0, 4>>
L5 == <<5, 0, 5>>
L6 == <<5, 0, 6>>
L7 == <<5, 0, 7>>
L8 == <<5, 0, 8>>
L9 == <<5, 0, 9>>
R1 == <<6, 0, 1>>
R2 == <<6, 0, 2>>
R3 == <<6, 0, 3>>

Fsn == "900000000000003001"
Synonym == "900000000000013009"
Definition == "900000000000550004"
EnGB == "900000000000508004"
EnUS == "900000000000509007"
Preferred == "900000000000548007"
Acceptable == "900000000000549004"
NbRefset == "61000202103"
NnRefset == "91000202106"

\* A small release: concepts "1" (in both packages), "10" and "2" (INT) are
\* active and described in Norwegian; "3" and "4" are no concepts.
BaseFiles ==
    [t \in TableNames |->
        CASE t = "concept_no" -> <<SnomedTableConcept(S1, 1)>>
          [] t = "concept_int" ->
                <<SnomedTableConcept(S1, 1), SnomedTableConcept(S10, 1),
                  SnomedTableConcept(S2, 1)>>
          [] t = "description_no_no" ->
                <<SnomedTableDescription(D1, 1, S1, Fsn, "hjerte"),
                  SnomedTableDescription(D2, 1, S10, Synonym, "lunge"),
                  SnomedTableDescription(D3, 1, S2, Fsn, "lever"),
                  SnomedTableDescription(D4, 1, S2, Synonym, "levra"),
                  SnomedTableDescription(D5, 1, S3, Synonym, "nyre")>>
          [] t = "description_en_no" ->
                <<SnomedTableDescription(E1, 1, S1, Fsn, "heart")>>
          [] t = "description_en_int" ->
                <<SnomedTableDescription(E1, 1, S1, Fsn, "heart (int)"),
                  SnomedTableDescription(E2, 1, S10, Fsn, "lung"),
                  SnomedTableDescription(E3, 1, S3, Synonym, "kidney")>>
          [] t = "definition_no_no" ->
                <<SnomedTableDescription(F1, 1, S1, Definition, "hjertet er"),
                  SnomedTableDescription(F2, 1, S3, Definition, "nyren er")>>
          [] t = "definition_en_no" ->
                <<SnomedTableDescription(G1, 1, S10, Definition, "the lung is")>>
          [] t = "definition_en_int" ->
                <<SnomedTableDescription(G2, 1, S2, Definition, "the liver is")>>
          [] t = "language_nb_no" ->
                <<SnomedTableLanguage(L1, 1, NbRefset, D1, Preferred),
                  SnomedTableLanguage(L2, 1, NbRefset, F1, Preferred)>>
          [] t = "language_nb_gp_no" ->
                <<SnomedTableLanguage(L3, 1, NbRefset, D1, Acceptable)>>
          [] t = "language_nn_no" ->
                <<SnomedTableLanguage(L4, 1, NnRefset, D2, Preferred)>>
          [] t = "language_nn_gp_no" ->
                <<SnomedTableLanguage(L5, 1, NnRefset, D5, Acceptable)>>
          [] t = "language_en_no" ->
                <<SnomedTableLanguage(L6, 1, EnGB, E1, Preferred),
                  SnomedTableLanguage(L9, 1, EnGB, G1, Preferred)>>
          [] t = "language_en_int" ->
                <<SnomedTableLanguage(L7, 1, EnUS, E2, Preferred),
                  SnomedTableLanguage(L8, 1, EnUS, G1, Acceptable)>>
          [] t = "relationship_no" ->
                <<SnomedTableRelationship(R1, 1, S1, S2)>>
          [] OTHER ->
                <<SnomedTableRelationship(R2, 1, S3, S10),
                  SnomedTableRelationship(R3, 1, S3, S4)>>]

\* the same release as generate_dataset_field returns it
Base == [t \in TableNames |-> replace_values(Family(t), BaseFiles[t])]

\* cli.main: Config(limit=limit, validate=validate, extras=...) with
\* id_filter_split = tuple(id_filter.split(",")) if id_filter else None,
\* which is None or a non-empty tuple
Config(limit, id_filter, validate, safe_validation) ==
    [limit |-> limit, id_filter |-> id_filter,
     validate |-> validate, safe_validation |-> safe_validation]

Limits == {None} \cup {Some(n) : n \in 0..MaxLimit}

IdFilters == {None, Some(<<S10>>), Some(<<S2, S3, S1>>)}

Opt(rows) == {<<>>} \cup {<<r>> : r \in rows}

\* Scope inputs: the concept rows of "1" and "10" in both packages and their
\* Norwegian descriptions vary (absent, active, inactive), under every
\* limit and allow-list
ScopeData ==
    {[Base EXCEPT
        !["concept_no"] = a1 \o a2,
        !["concept_int"] = b1 \o b2 \o <<SnomedTableConcept(S2, 1)>>,
        !["description_no_no"] = d1 \o d2 \o SubSeq(@, 3, 5)]
     : a1 \in Opt({SnomedTableConcept(S1, a) : a \in {0, 1}}),
       a2 \in Opt({SnomedTableConcept(S10, a) : a \in {0, 1}}),
       b1 \in Opt({SnomedTableConcept(S1, a) : a \in {0, 1}}),
       b2 \in Opt({SnomedTableConcept(S10, a) : a \in {0, 1}}),
       d1 \in Opt({SnomedTableDescription(D1, a, S1, "fsn", "hjerte")
                     : a \in {0, 1}}),
       d2 \in Opt({SnomedTableDescription(D2, a, S10, "synonym", "lunge")
                     : a \in {0, 1}})}

\* Relationship inputs: relationships "601" and "602" vary in both packages
\* (absent, inactive, active between concepts in and out of scope)
RelationshipOpts(id) ==
    Opt({SnomedTableRelationship(id, 0, S1, S2)}
        \cup {SnomedTableRelationship(id, 1, s, t)
                : s \in {S1, S3}, t \in {S2, S4}})

RelationshipData ==
    {[Base EXCEPT
        !["relationship_no"] = a1 \o a2,
        !["relationship_int"] = b1 \o b2 \o <<SnomedTableRelationship(R3, 1, S3, S4)>>]
     : a1 \in RelationshipOpts(R1), a2 \in RelationshipOpts(R2),
       b1 \in RelationshipOpts(R1), b2 \in RelationshipOpts(R2)}

\* English inputs: description "301", definition "401" and the language
\* members "506", "507" vary in both packages
EnDescriptionOpts ==
    Opt({SnomedTableDescription(E1, 0, S1, "fsn", "heart"),
         SnomedTableDescription(E1, 1, S1, "fsn", "heart"),
         SnomedTableDescription(E1, 1, S1, "definition", "the heart is"),
         SnomedTableDescription(E1, 1, S3, "synonym", "kidney")})

EnDefinitionOpts ==
    Opt({SnomedTableDescription(G1, 0, S1, "definition", "the heart is"),
         SnomedTableDescription(G1, 1, S1, "definition", "the heart is"),
         SnomedTableDescription(G1, 1, S1, "fsn", "heart"),
         SnomedTableDescription(G1, 1, S3, "definition", "the kidney is")})

EnLanguageOpts(rowIds) ==
    Opt({SnomedTableLanguage(id, 0, "en-GB", E1, "tilraadd") : id \in rowIds}
        \cup {SnomedTableLanguage(id, 1, "en-GB", c, "tilraadd")
                : id \in rowIds, c \in {E1, G1}})

EnglishData ==
    {[Base EXCEPT
        !["description_en_no"] = a,
        !["description_en_int"] = b \o SubSeq(@, 2, 3),
        !["definition_en_no"] = c,
        !["definition_en_int"] = d \o @,
        !["language_en_no"] = l,
        !["language_en_int"] = m \o SubSeq(@, 1, 1)]
     : a \in EnDescriptionOpts, b \in EnDescriptionOpts,
       c \in EnDefinitionOpts, d \in EnDefinitionOpts,
       l \in EnLanguageOpts({L6}), m \in EnLanguageOpts({L6, L7})}

\* National inputs: description "101", definition "201" and the members of
\* the four Norwegian language refsets vary
NoDescriptionOpts ==
    Opt({SnomedTableDescription(D1, 0, S1, "fsn", "hjerte"),
         SnomedTableDescription(D1, 1, S1, "fsn", "hjerte"),
         SnomedTableDescription(D1, 1, S1, "definition", "hjertet er"),
         SnomedTableDescription(D1, 1, S3, "synonym", "nyre"),
         SnomedTableDescription(D1, 1, S4, "fsn", "milt")})

NoDefinitionOpts ==
    Opt({SnomedTableDescription(F1, 0, S10, "definition", "lungen er"),
         SnomedTableDescription(F1, 1, S10, "definition", "lungen er"),
         SnomedTableDescription(F1, 1, S10, "fsn", "lunge"),
         SnomedTableDescription(F1, 1, S3, "definition", "nyren er")})

NoLanguageOpts(id, refset, components) ==
    Opt({SnomedTableLanguage(id, 0, refset, D1, "tilraadd")}
        \cup {SnomedTableLanguage(id, 1, refset, c, "tilraadd")
                : c \in components})

NoGpOpts(id, refset) ==
    Opt({SnomedTableLanguage(id, 1, refset, c, "akseptabel") : c \in {D1, F1}})

NationalData ==
    {[Base EXCEPT
        !["description_no_no"] = a \o Tail(@),
        !["definition_no_no"] = b \o Tail(@),
        !["language_nb_no"] = l,
        !["language_nb_gp_no"] = m,
        !["language_nn_no"] = n,
        !["language_nn_gp_no"] = o]
     : a \in NoDescriptionOpts, b \in NoDefinitionOpts,
       l \in NoLanguageOpts(L1, NbRefset, {D1, F1, D5}),
       m \in NoGpOpts(L3, NbRefset),
       n \in NoLanguageOpts(L4, NnRefset, {D1, F1}),
       o \in NoGpOpts(L5, NnRefset)}

\* Base with one row made inactive, for every row of every table
InactiveData ==
    {[Base EXCEPT ![t] = [@ EXCEPT ![i] = [@ EXCEPT !.active = 0]]]
     : <<t, i>> \in {<<u, j>> \in TableNames \X (1..5) : j <= Len(Base[u])}}

\* A release whose NO package holds, for each of the five NO/INT pairs, an
\* inactive row whose id the INT package holds active
ShadowedData ==
    {[Base EXCEPT
        !["concept_no"] = <<SnomedTableConcept(S10, 0)>> \o @,
        !["description_en_no"] =
            <<SnomedTableDescription(E2, 0, S10, "fsn", "lung")>> \o @,
        !["definition_en_no"] =
            <<SnomedTableDescription(G2, 0, S2, "definition", "the liver is")>> \o @,
        !["language_en_no"] =
            <<SnomedTableLanguage(L7, 0, "en-US", E2, "tilraadd")>> \o @,
        !["relationship_no"] =
            <<SnomedTableRelationship(R2, 0, S3, S10)>> \o @]}

\* Base with one more, inactive row ("999") in each of the sixteen tables
RetiredData ==
    {[t \in TableNames |->
        Base[t] \o <<[Base[t][1] EXCEPT !.id = <<9, 9, 9>>, !.active = 0]>>]}

NoScope == {Config(None, None, TRUE, TRUE)}

SomeScopes ==
    {Config(None, None, TRUE, TRUE), Config(Some(1), None, TRUE, TRUE),
     Config(None, Some(<<S10>>), TRUE, TRUE)}

InitScope ==
    /\ config \in {Config(l, f, TRUE, TRUE) : l \in Limits, f \in IdFilters}
    /\ loaded \in ScopeData

InitRelationship ==
    /\ config \in SomeScopes
    /\ loaded \in RelationshipData

InitEnglish ==
    /\ config \in NoScope
    /\ loaded \in EnglishData

InitNational ==
    /\ config \in SomeScopes
    /\ loaded \in NationalData

InitInactive ==
    /\ config \in SomeScopes
    /\ loaded \in InactiveData \cup ShadowedData \cup RetiredData

\* the state when SnomedDataRaw is constructed from the loaded tables
Init ==
    /\ \/ InitScope
       \/ InitRelationship
       \/ InitEnglish
       \/ InitNational
       \/ InitInactive
    /\ files = loaded
    /\ data = loaded
    /\ nextTable = Len(Tables) + 1
    /\ warnings = <<>>
    /\ ids = <<>>
    /\ out = None
    /\ pc = "constructed"

Spec == Init /\ [][Next]_vars

\* Files for loading: the base release with a first row that fails its
\* attrs validators put in front of one table and a second one put at the
\* end of one table (SnomedTableRelationship has no validators: its rows
\* never fail)
FailingRow(key, id) ==
    CASE Family(key) = "Concept" -> SnomedTableConcept(id, 2)
      [] Family(key) \in {"Description", "Definition"} ->
            SnomedTableDescription(id, 1, S1, "900000000000000000", "?")
      [] Family(key) = "Language" ->
            SnomedTableLanguage(id, 1, NbRefset, D1, "900000000000000000")
      [] OTHER -> SnomedTableRelationship(id, 2, S1, S2)

LoadFiles ==
    {[t \in TableNames |->
        (IF t = t1 THEN <<FailingRow(t, <<9, 9, 1>>)>> ELSE <<>>)
        \o BaseFiles[t]
        \o (IF t = t2 THEN <<FailingRow(t, <<9, 9, 2>>)>> ELSE <<>>)]
     : t1 \in TableNames \cup {"none"}, t2 \in TableNames \cup {"none"}}

\* the state when snomed_load_dataset_from_files starts loading
InitLoad ==
    /\ files \in LoadFiles
    /\ config \in {Config(None, None, v, s) : v \in BOOLEAN, s \in BOOLEAN}
    /\ loaded = EmptyData
    /\ data = EmptyData
    /\ nextTable = 1
    /\ warnings = <<>>
    /\ ids = <<>>
    /\ out = None
    /\ pc = "load"

SpecLoad == InitLoad /\ [][NextLoad]_vars

---------------------------------------------------------------------------
(* Properties *)

\* __attrs_post_init__ has returned
Reconciled == pc \in {"reconciled", "done"}

Rows(table) == Range(table)

ConceptIdTables ==
    {"description_no_no", "description_en_no", "description_en_int",
     "definition_no_no", "definition_en_no", "definition_en_int"}

\* the ids of the active concept rows that survive dedup, read off the
\* tables as loaded
ActiveConceptUniverse ==
    {r.id : r \in {q \in Rows(loaded["concept_no"]) : q.active = 1}}
    \cup {r.id : r \in {q \in Rows(loaded["concept_int"]) :
                          /\ q.active = 1
                          /\ \A n \in Rows(loaded["concept_no"]) : n.id # q.id}}

\* the concepts with an active Norwegian description, as loaded
DescribedInNorwegian ==
    {r.conceptId : r \in {q \in Rows(loaded["description_no_no"]) : q.active = 1}}

\* the baseline sequence of step 4 and its narrowing by the allow-list
Baseline == SortSeries(ActiveConceptUniverse \cap DescribedInNorwegian)

Narrowed ==
    IF config.id_filter = None THEN Baseline
    ELSE SelectSeq(Baseline, LAMBDA c : c \in Range(config.id_filter[1]))

FirstN(s, n) == SubSeq(s, 1, Min(n, Len(s)))

\* C1 (cascade completeness): after reconciliation, under every
\* configuration, every row of each of the six conceptId-bearing tables has
\* its conceptId in ids.
C1_CascadeCompleteness ==
    Reconciled =>
        \A t \in ConceptIdTables : \A r \in Rows(data[t]) :
            r.conceptId \in Range(ids)

\* C2 (limit truncation): whenever a limit N >= 0 is configured, ids is the
\* first N elements of the allow-list-narrowed baseline, so Len(ids) <= N.
C2_LimitTruncation ==
    (Reconciled /\ config.limit # None /\ config.limit[1] >= 0) =>
        /\ ids = FirstN(Narrowed, config.limit[1])
        /\ Len(ids) <= config.limit[1]

\* C3 (allow-list narrowing): whenever id_filter is set, ids before any
\* limit is the subsequence of the baseline of the members of id_filter;
\* when a limit is set as well, ids is the truncation of that subsequence.
C3_AllowListThenLimit ==
    (Reconciled /\ config.id_filter # None) =>
        LET narrowed == SelectSeq(Baseline,
                            LAMBDA c : c \in Range(config.id_filter[1]))
        IN  IF config.limit = None
            THEN ids = narrowed
            ELSE ids = FirstN(narrowed, config.limit[1])

\* C4 (ConceptIdSet invariant): ids is duplicate-free and sorted ascending,
\* and each of its identifiers is an active concept of the universe with at
\* least one active row in description_no_no.
C4_ConceptIdSet ==
    Reconciled =>
        /\ \A i, j \in 1..Len(ids) : i < j => StrLess(ids[i], ids[j])
        /\ \A c \in Range(ids) :
              /\ c \in ActiveConceptUniverse
              /\ \E r \in Rows(loaded["description_no_no"]) :
                    r.active = 1 /\ r.conceptId = c

\* a run with two or more identifiers in scope, in the order "1" < "10" < "2"
C4_Witness ==
    /\ Reconciled
    /\ Len(ids) >= 3
    /\ ids[1] = S1 /\ ids[2] = S10 /\ ids[3] = S2
    /\ Cardinality({r \in Rows(loaded["description_no_no"]) :
                       r.conceptId = S2 /\ r.active = 1}) > 1

\* a relationship row that survives dedup and the active filter, read off
\* the tables as loaded
SurvivingRelationships(t) ==
    IF t = "relationship_no"
    THEN {r \in Rows(loaded[t]) : r.active = 1}
    ELSE {r \in Rows(loaded[t]) :
            /\ r.active = 1
            /\ \A n \in Rows(loaded["relationship_no"]) : n.id # r.id}

PastActiveFilter ==
    pc \in {"active", "ids", "reduced", "language", "reconciled", "done"}

\* C6 (active-filter invariant): from the active filter on, through every
\* later cascade step, every row of each of the sixteen tables has
\* active = 1.
C6_ActiveOnly ==
    PastActiveFilter =>
        \A t \in TableNames : \A r \in Rows(data[t]) : r.active = 1

\* a reconciled release each of whose sixteen tables was loaded with an
\* inactive row whose concept or component is in scope
C6_Witness ==
    /\ Reconciled
    /\ Len(ids) = 3
    /\ \A t \in TableNames :
          \E r \in Rows(loaded[t]) : r.active = 0 /\ r.id = <<9, 9, 9>>

\* the five NO/INT pairs
Pairs ==
    {<<"concept_no", "concept_int">>,
     <<"description_en_no", "description_en_int">>,
     <<"definition_en_no", "definition_en_int">>,
     <<"language_en_no", "language_en_int">>,
     <<"relationship_no", "relationship_int">>}

IdsOf(table) == {r.id : r \in Rows(table)}

\* the ids that the NO table holds, as loaded, on inactive rows only
InactiveInNo(no) ==
    {i \in IdsOf(loaded[no]) :
        \A r \in Rows(loaded[no]) : r.id = i => r.active # 1}

\* C7 (dedup before the active filter): after reconciliation no INT row has
\* an id that the NO table held when loaded, even on an inactive row; an id
\* inactive in NO is in neither table of the pair, and for concepts it is
\* not in the concept universe nor in ids.
C7_DedupBeforeActive ==
    Reconciled =>
        /\ \A p \in Pairs :
              /\ IdsOf(data[p[2]]) \cap IdsOf(loaded[p[1]]) = {}
              /\ InactiveInNo(p[1]) \cap (IdsOf(data[p[1]]) \cup IdsOf(data[p[2]])) = {}
        /\ InactiveInNo("concept_no") \cap ConceptsActive(data) = {}
        /\ InactiveInNo("concept_no") \cap Range(ids) = {}

\* every pair was loaded with an id inactive in NO and active in INT
C7_Witness ==
    /\ Reconciled
    /\ \A p \in Pairs :
          \E i \in InactiveInNo(p[1]) :
              \E r \in Rows(loaded[p[2]]) : r.id = i /\ r.active = 1

ComponentIds(descriptions, definitions) ==
    IdsOf(data[descriptions]) \cup IdsOf(data[definitions])

\* C8 (language cascade): after reconciliation every row of the four
\* Norwegian language tables references a row kept in description_no_no or
\* definition_no_no, every row of language_en_no one kept in
\* description_en_no or definition_en_no, and every row of language_en_int
\* one kept in description_en_int or definition_en_int.
C8_LanguageCascade ==
    Reconciled =>
        /\ \A t \in {"language_nb_no", "language_nb_gp_no",
                     "language_nn_no", "language_nn_gp_no"} :
              \A r \in Rows(data[t]) :
                  r.referencedComponentId
                      \in ComponentIds("description_no_no", "definition_no_no")
        /\ \A r \in Rows(data["language_en_no"]) :
              r.referencedComponentId
                  \in ComponentIds("description_en_no", "definition_en_no")
        /\ \A r \in Rows(data["language_en_int"]) :
              r.referencedComponentId
                  \in ComponentIds("description_en_int", "definition_en_int")

\* an active language_en_int row that references a component kept only in
\* the NO package is dropped, while other rows of the table are kept
C8_Witness ==
    /\ Reconciled
    /\ data["language_en_int"] # <<>>
    /\ data["language_nb_no"] # <<>>
    /\ \E r \in Rows(loaded["language_en_int"]) :
          /\ r.active = 1
          /\ r.id \notin IdsOf(loaded["language_en_no"])
          /\ r.referencedComponentId
                \in ComponentIds("description_en_no", "definition_en_no")
          /\ r \notin Rows(data["language_en_int"])

\* the table that generate_dataset_field hands to validate_table
Normalised(k) == replace_values(Family(Tables[k]), files[Tables[k]])

FailingRows(k) ==
    SelectSeq(Normalised(k), LAMBDA r : ~RowIsValid(Family(Tables[k]), r))

\* C9 (validation asymmetry), with validate on.  safe_validation = true:
\* the run never aborts, every table loaded so far holds all its rows, the
\* failing ones included, and each failing row was logged.
\* safe_validation = false: no table with a failing row is ever loaded, the
\* run aborts at the first failing row (the only row logged), and no
\* SnomedDataRaw and no SnomedData are ever built.
C9_ValidationAsymmetry ==
    /\ (config.validate /\ config.safe_validation) =>
          /\ pc # "aborted"
          /\ \A k \in 1..(nextTable - 1) : loaded[Tables[k]] = Normalised(k)
          /\ warnings = Flatten([k \in 1..(nextTable - 1) |-> FailingRows(k)])
    /\ (config.validate /\ ~config.safe_validation) =>
          /\ \A k \in 1..(nextTable - 1) : FailingRows(k) = <<>>
          /\ (\E k \in 1..Len(Tables) : FailingRows(k) # <<>>) =>
                /\ pc \in {"load", "aborted"}
                /\ data = EmptyData /\ ids = <<>> /\ out = None
          /\ pc = "aborted" =>
                /\ FailingRows(nextTable) # <<>>
                /\ warnings = <<FailingRows(nextTable)[1]>>
                /\ loaded[Tables[nextTable]] = <<>>

\* safe validation: a release with two failing rows in one table is loaded,
\* both rows are logged and kept, and the run ends with a dataset
C9_Witness ==
    /\ pc = "done"
    /\ config.validate /\ config.safe_validation
    /\ Len(warnings) = 2
    /\ out # None
    /\ \E t \in TableNames : Rows(loaded[t]) \cap Range(warnings) # {}

\* strict validation: the run has aborted at the first of two failing rows
\* of a table
C9_WitnessAbort ==
    /\ pc = "aborted"
    /\ config.validate /\ ~config.safe_validation
    /\ Len(FailingRows(nextTable)) = 2
    /\ Len(warnings) = 1

DefinitionTables == {"definition_no_no", "definition_en_no", "definition_en_int"}

\* C10 (terms/definitions projection): every row of the terms output has
\* typeId fsn or synonym, and every row of the definitions output comes
\* from a row of a definition table whose typeId is definition.
C10_Projection ==
    pc = "done" =>
        /\ \A r \in Rows(out[1].terms) : r.typeId \in {"fsn", "synonym"}
        /\ \A r \in Rows(out[1].definitions) :
              \E t \in DefinitionTables : \E d \in Rows(data[t]) :
                  /\ d.id = r.definitionId
                  /\ d.conceptId = r.conceptId
                  /\ d.term = r.term
                  /\ d.typeId = "definition"

\* a run with both outputs non-empty in which a language row references a
\* description typed definition, another references a definition-table row
\* typed fsn, and that one has no row on the description side
C10_Witness ==
    /\ pc = "done"
    /\ out[1].terms # <<>>
    /\ out[1].definitions # <<>>
    /\ \E l \in Rows(data["language_nb_no"]) :
          \E d \in Rows(data["description_no_no"]) :
              d.id = l.referencedComponentId /\ d.typeId = "definition"
    /\ \E l \in Rows(data["language_nn_no"]) :
          /\ \E d \in Rows(data["definition_no_no"]) :
                d.id = l.referencedComponentId /\ d.typeId = "fsn"
          /\ l.referencedComponentId \notin IdsOf(data["description_no_no"])

\* the national language tables with their GP-register table and locale tag
NationalRegisters ==
    {<<"language_nb_no", "language_nb_gp_no", "nb">>,
     <<"language_nn_no", "language_nn_gp_no", "nn">>}

\* the row l of a national language table references an fsn/synonym row of
\* description_no_no
ReferencesTerm(l) ==
    \E d \in Rows(data["description_no_no"]) :
        d.id = l.referencedComponentId /\ d.typeId \in {"fsn", "synonym"}

\* C11 (GP left join keeps unmatched rows): for every row of language_nb_no
\* (resp. language_nn_no) that references an fsn/synonym row of
\* description_no_no and has no row with the same referencedComponentId in
\* language_nb_gp_no (resp. language_nn_gp_no), the terms output holds a row
\* for it, tagged nb (resp. nn), with GP acceptability null; every row of
\* the English branch has GP acceptability null.
C11_GpLeftJoin ==
    pc = "done" =>
        /\ \A p \in NationalRegisters : \A l \in Rows(data[p[1]]) :
              (/\ ReferencesTerm(l)
               /\ \A g \in Rows(data[p[2]]) :
                     g.referencedComponentId # l.referencedComponentId)
              => \E r \in Rows(out[1].terms) :
                    /\ r.termId = l.referencedComponentId
                    /\ r.lc = p[3]
                    /\ r.acceptabilityId = l.acceptabilityId
                    /\ r.acceptabilityId_gp = NullStr
        /\ \A r \in Rows(out[1].terms) :
              r.lc \notin {"nb", "nn"} => r.acceptabilityId_gp = NullStr
        /\ \A r \in Rows(terms_en(data)) : r.acceptabilityId_gp = NullStr

\* a run in which a bokmaal row that references an fsn has no GP row while
\* a nynorsk row has one, and the English branch contributes rows
C11_Witness ==
    /\ pc = "done"
    /\ \E l \in Rows(data["language_nb_no"]) :
          /\ ReferencesTerm(l)
          /\ \A g \in Rows(data["language_nb_gp_no"]) :
                g.referencedComponentId # l.referencedComponentId
    /\ data["language_nb_gp_no"] # <<>>
    /\ \E r \in Rows(out[1].terms) :
          r.lc = "nn" /\ r.acceptabilityId_gp = "akseptabel"
    /\ terms_en(data) # <<>>

\* C12 (dedup idempotence): applying the cross-source dedup a second time
\* to an already-deduplicated (NO, INT) pair leaves both tables unchanged:
\* right after the dedup step a further pass over the tables changes none
\* of them, and for the tables as loaded two passes equal one.
C12_DedupIdempotent ==
    /\ pc = "deduped" => Dedup(data) = data
    /\ Dedup(Dedup(loaded)) = Dedup(loaded)

\* the dedup step has removed rows from every INT table, two or more from
\* one of them, and has left rows in one of them
C12_Witness ==
    /\ pc = "deduped"
    /\ \A p \in Pairs : Len(data[p[2]]) < Len(loaded[p[2]])
    /\ \E p \in Pairs : Len(data[p[2]]) + 2 <= Len(loaded[p[2]])
    /\ \E p \in Pairs : data[p[2]] # <<>>

\* the rows (by position) of the definitions output for definition f and
\* locale lc
DefinitionRowsFor(f, lc) ==
    {i \in 1..Len(out[1].definitions) :
        out[1].definitions[i].definitionId = f /\ out[1].definitions[i].lc = lc}

\* the rows (by position) of a language table that reference component f
MembersFor(table, f) ==
    {i \in 1..Len(table) : table[i].referencedComponentId = f}

\* C13 (definitions follow the terms pattern in the national branch): the
\* GP-register tables only annotate, so for every row of definition_no_no
\* typed definition and each of the locales nb and nn, the definitions
\* output holds exactly one row per row of language_nb_no (resp.
\* language_nn_no) that references it: none of its own for a GP row, and
\* not two for a definition annotated in both tables.
C13_DefinitionsFollowTerms ==
    pc = "done" =>
        \A p \in NationalRegisters : \A d \in Rows(data["definition_no_no"]) :
            d.typeId = "definition" =>
                Cardinality(DefinitionRowsFor(d.id, p[3]))
                    = Cardinality(MembersFor(data[p[1]], d.id))

\* C14 (output scoping): for every input and every configuration, the one
\* with neither limit nor id_filter set included, every row of the terms
\* output and of the definitions output has a conceptId that is in the ids
\* returned alongside it in SnomedData.
C14_OutputScoping ==
    pc = "done" =>
        /\ \A r \in Rows(out[1].terms) : r.conceptId \in Range(out[1].ids)
        /\ \A r \in Rows(out[1].definitions) : r.conceptId \in Range(out[1].ids)

====
